---- MODULE Spec2Model ----
(***************************************************************************)
(* State-machine model of the epro procurement application                 *)
(* (htdocs/epro): the save hooks of CommonBaseAbstractModel,               *)
(* PurchaseRequest, Item, RequestForQuotation, PurchaseOrder and           *)
(* PurchaseOrderItem, PurchaseRequest.clean, ModelDiffMixin, the           *)
(* FinanceCodesForm validators, the cascading deletions, and the create /  *)
(* edit / delete routes and admin registrations that call them.            *)
(*                                                                         *)
(* Database tables are functions from primary key to row; the domain of a  *)
(* table is the set of rows that exist.  Primary keys come from the        *)
(* database's auto-increment counter and are never reused.  Every request  *)
(* handler is one atomic step, except under SpecRace and SpecFinanceRace,  *)
(* where a handler's read and its write are two steps of a worker.         *)
(*                                                                         *)
(* Money is held in hundredths (DecimalField(decimal_places=2)):           *)
(* 1000 models 10.00.  Exchange rates are held in hundredths as well.      *)
(* Allocation percentages are held in whole percent.                       *)
(***************************************************************************)
EXTENDS Integers, FiniteSets, Sequences, TLC

VARIABLES
    prs,          \* table epro_purchaserequest: id -> row
    nextPrId,     \* auto-increment counter of that table
    items,        \* table epro_item: id -> row
    nextItemId,   \* auto-increment counter of that table
    fcs,          \* table epro_financecodes: id -> row
    nextFcId,     \* auto-increment counter of that table
    maxSnoSeen,   \* history: office -> greatest sno ever stored for it
    outcome,      \* how the last request ended
    tables,       \* the other tables: model name -> (id -> row)
    nextRowId,    \* their auto-increment counters: model name -> next id
    profiles,     \* table djangocosign_userprofile: the ids that exist
    instance,     \* the model instance the last save() worked on, as it left it
    inflight,     \* requests between two of their steps: worker -> local state
    utcnow        \* the clock: what datetime.datetime.utcnow() returns now

vars == <<prs, nextPrId, items, nextItemId, fcs, nextFcId, maxSnoSeen, outcome,
          tables, nextRowId, profiles, instance, inflight, utcnow>>

\* what the request, item and finance-code handlers leave alone
others == <<tables, nextRowId, profiles, instance, inflight, utcnow>>

----------------------------------------------------------------------------
(* Bounds of the model.                                                    *)

MaxPR == 3      \* purchase requests ever created in one run
MaxItem == 2    \* items ever created in one run
MaxFC == 2      \* finance-code rows ever created in one run
MaxRow == 2     \* rows ever created in one run in each of the other tables
MaxChild == 1   \* rows of each child kind created in one run of the deletions
MaxSaved == 2   \* requests created in one run of the status routes

(* Input domains.                                                          *)

Offices == {"A", "B"}
Statuses == {"Drafted", "Approved"}
Snos == {1, 2}                     \* sno a caller may put in an instance
Rates == {0, 200, 300}             \* dollar_exchange_rate: 0.00, 2.00, 3.00
\* <<quantity_requested, price_estimated_local>>: 3 x 10.00, 3 x 1.00
ItemInputs == {<<3, 1000>>, <<3, 100>>}
Amounts == {777}                   \* value a caller may put in a derived field
\* description_pr is required by every form (blank=False); description_po
\* may be left empty (blank=True)
Descriptions == {"pump", "valve", "crane"}
Percents == {0, 40, 45, 60, 101}   \* proposed allocation_percent
NotANumber == -1                   \* a gl_account for which int() raises
GLAccounts == {NotANumber, 999, 1234, 12345}    \* proposed gl_account

NoId == 0                          \* self.id of an instance not saved yet

\* the models, other than PurchaseRequest, Item and FinanceCodes, whose rows
\* belong to a purchase request or to one of its items
ChildModels == {"ItemAttachment", "RequestForQuotation", "RequestForQuotationItem",
                "PurchaseOrder", "PurchaseOrderItem", "GoodsReceivedNote",
                "PurchaseRequestLog"}
\* the models held in the variable tables
OtherModels == ChildModels \cup {"QuotationAnalysis", "Unit"}

Workers == {1, 2}                  \* server workers handling requests
Idle == [at |-> "idle"]            \* a worker between two requests
NoInstance == [model |-> "none"]   \* no save() has been called yet

----------------------------------------------------------------------------
(* Helpers standing for ORM aggregates.                                    *)

\* The greatest element of a non-empty set of integers.
SetMax(S) == CHOOSE m \in S : \A x \in S : x <= m

RECURSIVE SetSum(_, _)
\* Sum of f[x] over x in S.
SetSum(f, S) ==
    IF S = {} THEN 0
    ELSE LET x == CHOOSE y \in S : TRUE IN f[x] + SetSum(f, S \ {x})

\* table with row id removed
Without(table, ids) == [i \in DOMAIN table \ ids |-> table[i]]

\* table with row id inserted or replaced
With(table, id, row) == [i \in DOMAIN table \cup {id} |-> IF i = id THEN row ELSE table[i]]

\* on_delete=CASCADE of the foreign keys of the child models: the tables
\* without the rows that refer to a deleted request or to a deleted item.
\* Every child row holds purchase_request and item, NoId for a foreign key
\* its model does not have.
Cascade(t, prIds, itemIds) ==
    [m \in DOMAIN t |->
        Without(t[m], {r \in DOMAIN t[m] :
                          \/ t[m][r].purchase_request \in prIds
                          \/ t[m][r].item \in itemIds})]

----------------------------------------------------------------------------
(* PurchaseRequest                                                         *)

\* pr_count_by_office with the office filter dropped
pr_count_by_office_mutant(table, office) ==
    LET snos == {table[i].sno : i \in DOMAIN table}
    IN IF snos = {} THEN 0 ELSE SetMax(snos)

\* PurchaseRequest.objects.filter(office=office).aggregate(Max('sno'))['sno__max'],
\* with None read as 0 (models.py 315-317).
pr_count_by_office(table, office) ==
    LET snos == {table[i].sno : i \in {j \in DOMAIN table : table[j].office = office}}
    IN IF snos = {} THEN 0 ELSE SetMax(snos)

\* PurchaseRequest.save that leaves the status of a new request as supplied
PurchaseRequest_save_keep_status(inst, table) ==
    LET row == [f \in DOMAIN inst \ {"id"} |-> inst[f]]
    IN IF inst.id = NoId
       THEN [row EXCEPT !.sno = pr_count_by_office(table, inst.office) + 1]
       ELSE row

\* The row PurchaseRequest.save stores for instance inst (models.py 309-321).
\* inst.id = NoId is "not self.id".
PurchaseRequest_save(inst, table) ==
    LET row == [f \in DOMAIN inst \ {"id"} |-> inst[f]]   \* the fields as assigned
    IN IF inst.id = NoId
       THEN [row EXCEPT !.status = "Drafted",
                        !.sno = pr_count_by_office(table, inst.office) + 1]
       ELSE row

\* history bookkeeping: the greatest sno an office has ever held
NoteSno(row) ==
    maxSnoSeen' = [maxSnoSeen EXCEPT ![row.office] =
                      IF row.sno > @ THEN row.sno ELSE @]

\* pr_new (urls.py 13) and the admin add form: save of an instance without id.
\* sno and status are what the caller put in the instance before the save.
pr_new(office, rate, sno, status) ==
    /\ nextPrId <= MaxPR
    /\ office \in Offices
    /\ LET inst == [id |-> NoId, office |-> office, sno |-> sno,
                    dollar_exchange_rate |-> rate, status |-> status]
           row == PurchaseRequest_save(inst, prs)
       IN /\ prs' = With(prs, nextPrId, row)
          /\ NoteSno(row)
    /\ nextPrId' = nextPrId + 1
    /\ outcome' = "ok"
    /\ UNCHANGED <<items, nextItemId, fcs, nextFcId>>
    /\ UNCHANGED others

\* pr_new with no office chosen: self.office.pk raises AttributeError at
\* models.py 315 and nothing is stored.
pr_new_no_office ==
    /\ nextPrId <= MaxPR
    /\ outcome' = "AttributeError"
    /\ UNCHANGED <<prs, nextPrId, items, nextItemId, fcs, nextFcId, maxSnoSeen>>
    /\ UNCHANGED others

\* pr_edit (urls.py 14): PurchaseRequestForm.Meta.fields (forms.py 50) holds
\* dollar_exchange_rate and neither sno, office nor status.
pr_edit(id, rate) ==
    /\ id \in DOMAIN prs
    /\ LET inst == [id |-> id, office |-> prs[id].office, sno |-> prs[id].sno,
                    dollar_exchange_rate |-> rate, status |-> prs[id].status]
           row == PurchaseRequest_save(inst, prs)
       IN /\ prs' = With(prs, id, row)
          /\ NoteSno(row)
    /\ outcome' = "ok"
    /\ UNCHANGED <<nextPrId, items, nextItemId, fcs, nextFcId>>
    /\ UNCHANGED others

\* The admin change form of PurchaseRequest (admin.py 13): every editable
\* field of the row is assigned from the form, then save() is called.
admin_change_PurchaseRequest(id, office, rate, sno, status) ==
    /\ id \in DOMAIN prs
    /\ office \in Offices
    /\ LET inst == [id |-> id, office |-> office, sno |-> sno,
                    dollar_exchange_rate |-> rate, status |-> status]
           row == PurchaseRequest_save(inst, prs)
       IN /\ prs' = With(prs, id, row)
          /\ NoteSno(row)
    /\ outcome' = "ok"
    /\ UNCHANGED <<nextPrId, items, nextItemId, fcs, nextFcId>>
    /\ UNCHANGED others

\* pr_del (urls.py 16): deletes the row; Item.purchase_request and
\* FinanceCodes.item cascade (models.py 381-383, 457).
pr_del(id) ==
    /\ id \in DOMAIN prs
    /\ prs' = Without(prs, {id})
    /\ LET gone == {i \in DOMAIN items : items[i].purchase_request = id}
       IN /\ items' = Without(items, gone)
          /\ fcs' = Without(fcs, {f \in DOMAIN fcs : fcs[f].item \in gone})
          /\ tables' = Cascade(tables, {id}, gone)
    /\ outcome' = "ok"
    /\ UNCHANGED <<nextPrId, nextItemId, nextFcId, maxSnoSeen>>
    /\ UNCHANGED <<nextRowId, profiles, instance, inflight, utcnow>>

----------------------------------------------------------------------------
(* Item                                                                    *)

\* round(x, 2) with x = num / den hundredths, num >= 0, den > 0: the nearest
\* hundredth, a tie going to the even one (Decimal.__round__).
round2(num, den) ==
    LET q == num \div den
        r == num % den
    IN IF 2 * r < den THEN q
       ELSE IF 2 * r > den THEN q + 1
       ELSE IF q % 2 = 0 THEN q ELSE q + 1

\* items_count_by_pr with the request filter dropped
items_count_by_pr_mutant(table, pr) ==
    LET snos == {table[i].item_sno : i \in DOMAIN table}
    IN IF snos = {} THEN 0 ELSE SetMax(snos)

\* Item.objects.filter(purchase_request=pr).aggregate(Max('item_sno'))['item_sno__max'],
\* with None read as 0 (models.py 419-421).
items_count_by_pr(table, pr) ==
    LET snos == {table[i].item_sno : i \in {j \in DOMAIN table : table[j].purchase_request = pr}}
    IN IF snos = {} THEN 0 ELSE SetMax(snos)

\* description_po copied from description_pr on every save
Item_save_description_po_always(inst) == inst.description_pr

\* self.description_po after models.py 411-412
Item_save_description_po(inst) ==
    IF inst.description_po = "" /\ inst.description_pr /= ""
    THEN inst.description_pr
    ELSE inst.description_po

\* Item.save raises at models.py 414 when the parent's rate is zero
\* (Decimal division by zero); nothing is stored then.
Item_save_raises(inst, prTable) ==
    prTable[inst.purchase_request].dollar_exchange_rate = 0

\* Item.save with both subtotals computed from the unrounded local amount
Item_save_mutant(inst, table, prTable) ==
    LET rate == prTable[inst.purchase_request].dollar_exchange_rate
    IN [purchase_request |-> inst.purchase_request,
        description_pr |-> inst.description_pr,
        description_po |-> Item_save_description_po(inst),
        quantity_requested |-> inst.quantity_requested,
        price_estimated_local |-> inst.price_estimated_local,
        price_estimated_local_subtotal |->
            round2(inst.price_estimated_local * inst.quantity_requested, 1),
        price_estimated_usd |-> round2(100 * inst.price_estimated_local, rate),
        price_estimated_usd_subtotal |->
            round2(100 * inst.price_estimated_local * inst.quantity_requested, rate),
        item_sno |-> IF inst.id = NoId
                     THEN items_count_by_pr(table, inst.purchase_request) + 1
                     ELSE inst.item_sno]

\* Item.save that computes the local subtotal on the first save only
Item_save_first_only(inst, table, prTable) ==
    LET rate == prTable[inst.purchase_request].dollar_exchange_rate
        price_estimated_usd == round2(100 * inst.price_estimated_local, rate)
    IN [purchase_request |-> inst.purchase_request,
        description_pr |-> inst.description_pr,
        description_po |-> Item_save_description_po(inst),
        quantity_requested |-> inst.quantity_requested,
        price_estimated_local |-> inst.price_estimated_local,
        price_estimated_local_subtotal |->
            IF inst.id = NoId
            THEN round2(inst.price_estimated_local * inst.quantity_requested, 1)
            ELSE inst.price_estimated_local_subtotal,
        price_estimated_usd |-> price_estimated_usd,
        price_estimated_usd_subtotal |->
            round2(price_estimated_usd * inst.quantity_requested, 1),
        item_sno |-> IF inst.id = NoId
                     THEN items_count_by_pr(table, inst.purchase_request) + 1
                     ELSE inst.item_sno]

\* The row Item.save stores for instance inst (models.py 410-424), for a
\* parent whose rate is not zero.
Item_save(inst, table, prTable) ==
    LET rate == prTable[inst.purchase_request].dollar_exchange_rate
        price_estimated_local_subtotal ==
            round2(inst.price_estimated_local * inst.quantity_requested, 1)
        price_estimated_usd == round2(100 * inst.price_estimated_local, rate)
        price_estimated_usd_subtotal ==
            round2(price_estimated_usd * inst.quantity_requested, 1)
    IN [purchase_request |-> inst.purchase_request,
        description_pr |-> inst.description_pr,
        description_po |-> Item_save_description_po(inst),
        quantity_requested |-> inst.quantity_requested,
        price_estimated_local |-> inst.price_estimated_local,
        price_estimated_local_subtotal |-> price_estimated_local_subtotal,
        price_estimated_usd |-> price_estimated_usd,
        price_estimated_usd_subtotal |-> price_estimated_usd_subtotal,
        item_sno |-> IF inst.id = NoId
                     THEN items_count_by_pr(table, inst.purchase_request) + 1
                     ELSE inst.item_sno]

\* save() of instance inst as row id of the items table, or the exception
StoreItem(id, inst) ==
    IF Item_save_raises(inst, prs)
    THEN /\ outcome' = "ArithmeticError"
         /\ UNCHANGED items
    ELSE /\ outcome' = "ok"
         /\ items' = With(items, id, Item_save(inst, items, prs))

\* item_new (urls.py 22) and the admin add form: save of an instance without
\* id.  amount is what the instance holds in its derived fields before the
\* save (the field default, or what the admin form carried).
item_new(pr, qty, price, amount, description_pr, description_po) ==
    /\ nextItemId <= MaxItem
    /\ pr \in DOMAIN prs
    /\ LET inst == [id |-> NoId, purchase_request |-> pr,
                    description_pr |-> description_pr,
                    description_po |-> description_po,
                    quantity_requested |-> qty, price_estimated_local |-> price,
                    price_estimated_local_subtotal |-> amount,
                    price_estimated_usd |-> amount,
                    price_estimated_usd_subtotal |-> amount,
                    item_sno |-> amount]
       IN StoreItem(nextItemId, inst)
    /\ nextItemId' = IF Item_save_raises([purchase_request |-> pr], prs)
                     THEN nextItemId ELSE nextItemId + 1
    /\ UNCHANGED <<prs, nextPrId, fcs, nextFcId, maxSnoSeen>>
    /\ UNCHANGED others

\* item_edit (urls.py 23): PurchaseRequestItemForm (forms.py 149-153) assigns
\* the parent, the quantity, the description of the request and the local
\* unit price; the other fields of the instance are the stored ones.
item_edit(id, pr, qty, price, description_pr) ==
    /\ id \in DOMAIN items
    /\ pr \in DOMAIN prs
    /\ LET inst == [items[id] EXCEPT !.purchase_request = pr,
                                     !.description_pr = description_pr,
                                     !.quantity_requested = qty,
                                     !.price_estimated_local = price]
       IN StoreItem(id, [id |-> id] @@ inst)
    /\ UNCHANGED <<prs, nextPrId, nextItemId, fcs, nextFcId, maxSnoSeen>>
    /\ UNCHANGED others

\* The admin change form of Item (admin.py 17): every editable field,
\* derived ones included, is assigned from the form, then save() is called.
admin_change_Item(id, pr, qty, price, amount, sno, description_pr, description_po) ==
    /\ id \in DOMAIN items
    /\ pr \in DOMAIN prs
    /\ LET inst == [id |-> id, purchase_request |-> pr,
                    description_pr |-> description_pr,
                    description_po |-> description_po,
                    quantity_requested |-> qty, price_estimated_local |-> price,
                    price_estimated_local_subtotal |-> amount,
                    price_estimated_usd |-> amount,
                    price_estimated_usd_subtotal |-> amount,
                    item_sno |-> sno]
       IN StoreItem(id, inst)
    /\ UNCHANGED <<prs, nextPrId, nextItemId, fcs, nextFcId, maxSnoSeen>>
    /\ UNCHANGED others

\* item_del (urls.py 25): deletes the row; FinanceCodes.item cascades
\* (models.py 457).
item_del(id) ==
    /\ id \in DOMAIN items
    /\ items' = Without(items, {id})
    /\ fcs' = Without(fcs, {f \in DOMAIN fcs : fcs[f].item = id})
    /\ tables' = Cascade(tables, {}, {id})
    /\ outcome' = "ok"
    /\ UNCHANGED <<prs, nextPrId, nextItemId, nextFcId, maxSnoSeen>>
    /\ UNCHANGED <<nextRowId, profiles, instance, inflight, utcnow>>

----------------------------------------------------------------------------
(* FinanceCodes and FinanceCodesForm                                       *)

MinPercent == 1      \* MinValueValidator(1.00) of allocation_percent
MaxPercent == 100    \* MaxValueValidator(100.00); the limit of the form's sum

RECURSIVE StrLen(_)
\* len(str(n)) for an integer n >= 0
StrLen(n) == IF n < 10 THEN 1 ELSE 1 + StrLen(n \div 10)

\* FinanceCodesForm.clean_gl_account passes (forms.py 219-228)
clean_gl_account(gl_account) ==
    /\ gl_account /= NotANumber
    /\ ~ (StrLen(gl_account) > 4 \/ StrLen(gl_account) < 4)

\* validate_positive and validate_gl_account pass (models.py 94-103, 458);
\* the model form runs them on the instance after the form's own cleaning
gl_account_validators(gl_account) ==
    /\ gl_account /= NotANumber
    /\ ~ (gl_account <= 0)
    /\ ~ (StrLen(gl_account) > 4)

\* MaxValueValidator(100.00), MinValueValidator(1.00) pass (models.py 465-466)
allocation_percent_validators(allocation_percent) ==
    /\ allocation_percent <= MaxPercent
    /\ allocation_percent >= MinPercent

\* item.finance_codes.aggregate(Sum('allocation_percent'))['allocation_percent__sum'],
\* with None (no row) read as 0: both are false in "and total[...]"
allocation_percent__sum(table, item) ==
    LET rows == {f \in DOMAIN table : table[f].item = item}
    IN SetSum([f \in rows |-> table[f].allocation_percent], rows)

\* clean_allocation_percent that rejects a total of exactly 100
clean_allocation_percent_mutant(pk, item, allocation_percent, table) ==
    /\ item /= NoId
    /\ allocation_percent /= 0
    /\ LET total == allocation_percent__sum(table, item)
       IN IF pk = NoId /\ total /= 0
          THEN ~ (total + allocation_percent >= MaxPercent)
          ELSE ~ (allocation_percent > MaxPercent)

\* FinanceCodesForm.clean_allocation_percent passes (forms.py 230-251).
\* pk is self.instance.pk; item is NoId when the posted item does not exist.
clean_allocation_percent(pk, item, allocation_percent, table) ==
    /\ item /= NoId
    /\ allocation_percent /= 0
    /\ LET total == allocation_percent__sum(table, item)
       IN IF pk = NoId /\ total /= 0
          THEN ~ (total + allocation_percent > MaxPercent)
          ELSE ~ (allocation_percent > MaxPercent)

\* a form that is always valid
is_valid_mutant(pk, item, gl_account, allocation_percent, table) == TRUE

\* FinanceCodesForm.is_valid(): the form's clean_<field> methods and the
\* model's field validators
is_valid(pk, item, gl_account, allocation_percent, table) ==
    /\ clean_gl_account(gl_account)
    /\ clean_allocation_percent(pk, item, allocation_percent, table)
    /\ gl_account_validators(gl_account)
    /\ allocation_percent_validators(allocation_percent)

\* financecodes_new (urls.py 27): FinanceCodesForm without instance; the
\* row is written only when the form is valid.
financecodes_new(item, gl_account, allocation_percent) ==
    /\ nextFcId <= MaxFC
    /\ item \in DOMAIN items \cup {NoId}
    /\ IF is_valid(NoId, item, gl_account, allocation_percent, fcs)
       THEN /\ fcs' = With(fcs, nextFcId,
                           [item |-> item, gl_account |-> gl_account,
                            allocation_percent |-> allocation_percent])
            /\ nextFcId' = nextFcId + 1
            /\ outcome' = "ok"
       ELSE /\ outcome' = "ValidationError"
            /\ UNCHANGED <<fcs, nextFcId>>
    /\ UNCHANGED <<prs, nextPrId, items, nextItemId, maxSnoSeen>>
    /\ UNCHANGED others

\* financecodes_edit (urls.py 28): FinanceCodesForm with the stored row as
\* instance; item is a (hidden) field of the form as well.
financecodes_edit(id, item, gl_account, allocation_percent) ==
    /\ id \in DOMAIN fcs
    /\ item \in DOMAIN items \cup {NoId}
    /\ IF is_valid(id, item, gl_account, allocation_percent, fcs)
       THEN /\ fcs' = With(fcs, id,
                           [item |-> item, gl_account |-> gl_account,
                            allocation_percent |-> allocation_percent])
            /\ outcome' = "ok"
       ELSE /\ outcome' = "ValidationError"
            /\ UNCHANGED fcs
    /\ UNCHANGED <<prs, nextPrId, items, nextItemId, nextFcId, maxSnoSeen>>
    /\ UNCHANGED others

\* financecodes_del (urls.py 30)
financecodes_del(id) ==
    /\ id \in DOMAIN fcs
    /\ fcs' = Without(fcs, {id})
    /\ outcome' = "ok"
    /\ UNCHANGED <<prs, nextPrId, items, nextItemId, nextFcId, maxSnoSeen>>
    /\ UNCHANGED others

----------------------------------------------------------------------------
(* Initial state: empty tables.                                            *)

\* the other tables empty, no user profile, every worker idle, the clock at
\* its first instant
InitOthers ==
    /\ tables = [m \in OtherModels |-> <<>>]
    /\ nextRowId = [m \in OtherModels |-> 1]
    /\ profiles = {}
    /\ instance = NoInstance
    /\ inflight = [w \in Workers |-> Idle]
    /\ utcnow = 1

Init ==
    /\ prs = <<>>
    /\ nextPrId = 1
    /\ items = <<>>
    /\ nextItemId = 1
    /\ fcs = <<>>
    /\ nextFcId = 1
    /\ maxSnoSeen = [o \in Offices |-> 0]
    /\ outcome = "none"
    /\ InitOthers

(* The purchase-request routes.  The exchange rate is held at 2.00 here;   *)
(* SpecItem varies it.                                                     *)
Next ==
    \/ \E office \in Offices, sno \in Snos, status \in Statuses :
          pr_new(office, 200, sno, status)
    \/ pr_new_no_office
    \/ \E id \in DOMAIN prs : pr_del(id)
    \/ \E id \in DOMAIN prs, office \in Offices, sno \in Snos :
          admin_change_PurchaseRequest(id, office, 200, sno, prs[id].status)

Spec == Init /\ [][Next]_vars

(* The item routes, over two requests of office A that exist already       *)
(* (pr_new twice), whose exchange rate pr_edit changes.  The description   *)
(* is held at "pump" here; SpecDescription varies it.                      *)
InitItem ==
    /\ prs = (1 :> [office |-> "A", sno |-> 1, dollar_exchange_rate |-> 200,
                    status |-> "Drafted"])
             @@ (2 :> [office |-> "A", sno |-> 2, dollar_exchange_rate |-> 200,
                       status |-> "Drafted"])
    /\ nextPrId = 3
    /\ items = <<>>
    /\ nextItemId = 1
    /\ fcs = <<>>
    /\ nextFcId = 1
    /\ maxSnoSeen = [o \in Offices |-> IF o = "A" THEN 2 ELSE 0]
    /\ outcome = "ok"
    /\ InitOthers

NextItem ==
    \/ \E id \in DOMAIN prs, rate \in Rates : pr_edit(id, rate)
    \/ \E pr \in DOMAIN prs, in \in ItemInputs, amount \in Amounts :
          item_new(pr, in[1], in[2], amount, "pump", "")
    \/ \E id \in DOMAIN items : item_del(id)
    \/ \E id \in DOMAIN items, pr \in DOMAIN prs, in \in ItemInputs :
          item_edit(id, pr, in[1], in[2], "pump")
    \/ \E id \in DOMAIN items, pr \in DOMAIN prs, in \in ItemInputs, amount \in Amounts :
          admin_change_Item(id, pr, in[1], in[2], amount, items[id].item_sno,
                            "pump", items[id].description_po)

SpecItem == InitItem /\ [][NextItem]_vars

(* The finance-code routes, over one request with two items that exist     *)
(* already (pr_new, then item_new twice with 1 x 1.00 at rate 2.00 and     *)
(* the description "pump").                                                *)
InitFinance ==
    /\ prs = (1 :> [office |-> "A", sno |-> 1, dollar_exchange_rate |-> 200,
                    status |-> "Drafted"])
    /\ nextPrId = 2
    /\ items = (1 :> [purchase_request |-> 1, description_pr |-> "pump",
                      description_po |-> "pump", quantity_requested |-> 1,
                      price_estimated_local |-> 100,
                      price_estimated_local_subtotal |-> 100,
                      price_estimated_usd |-> 50,
                      price_estimated_usd_subtotal |-> 50, item_sno |-> 1])
               @@ (2 :> [purchase_request |-> 1, description_pr |-> "pump",
                         description_po |-> "pump", quantity_requested |-> 1,
                         price_estimated_local |-> 100,
                         price_estimated_local_subtotal |-> 100,
                         price_estimated_usd |-> 50,
                         price_estimated_usd_subtotal |-> 50, item_sno |-> 2])
    /\ nextItemId = 3
    /\ fcs = <<>>
    /\ nextFcId = 1
    /\ maxSnoSeen = [o \in Offices |-> IF o = "A" THEN 1 ELSE 0]
    /\ outcome = "ok"
    /\ InitOthers

NextFinance ==
    \/ \E item \in DOMAIN items \cup {NoId}, gl \in GLAccounts, p \in Percents :
          financecodes_new(item, gl, p)
    \/ \E id \in DOMAIN fcs, item \in DOMAIN items \cup {NoId}, gl \in GLAccounts,
          p \in Percents :
          financecodes_edit(id, item, gl, p)
    \/ \E id \in DOMAIN fcs : financecodes_del(id)

SpecFinance == InitFinance /\ [][NextFinance]_vars

----------------------------------------------------------------------------
(* Claims about PurchaseRequest sequence numbers (checked under Spec).     *)

\* a step in which a PurchaseRequest was saved for the first time
PrCreated == nextPrId' = nextPrId + 1

\* the requests of an office in the current state
PrsOfOffice(office) == {j \in DOMAIN prs : prs[j].office = office}

\* C1: with every save one atomic step, after any sequence of creations,
\* updates and deletions no two existing requests of the same office have
\* the same sno (an sno, once assigned at the first save, stays the
\* request's sno).
C1_SnoUniqueWithinOffice ==
    \A i \in DOMAIN prs : \A j \in DOMAIN prs :
        (i /= j /\ prs[i].office = prs[j].office) => prs[i].sno /= prs[j].sno

\* C2: the first save of a request sets sno to 1 when its office has no
\* request, and otherwise to one more than the greatest sno of the requests
\* of the same office; requests of other offices play no part, and no
\* existing request (of any office) is modified.
C2_FirstSaveSnoIsOfficeMaxPlusOne ==
    [][PrCreated =>
        LET id == nextPrId
            office == prs'[id].office
            same == PrsOfOffice(office)
        IN /\ DOMAIN prs' = DOMAIN prs \cup {id}
           /\ same = {} => prs'[id].sno = 1
           /\ same /= {} =>
                 /\ \A j \in same : prs[j].sno < prs'[id].sno
                 /\ \E j \in same : prs[j].sno + 1 = prs'[id].sno
           /\ \A j \in DOMAIN prs : prs'[j] = prs[j]
      ]_vars

\* C2 witness: office A holds sno 1 and 2, and the request created last, for
\* office B, started B's sequence at 1.
C2_Witness ==
    /\ outcome = "ok"
    /\ nextPrId - 1 \in DOMAIN prs
    /\ prs[nextPrId - 1].office = "B"
    /\ prs[nextPrId - 1].sno = 1
    /\ {prs[j].sno : j \in PrsOfOffice("A")} = {1, 2}
    /\ PrsOfOffice("B") = {nextPrId - 1}

\* C3: the sno given to a newly created request is strictly greater than
\* every sno the office has ever held, those of deleted requests included.
C3_SnoNeverReused ==
    [][PrCreated => prs'[nextPrId].sno > maxSnoSeen[prs'[nextPrId].office]]_vars

----------------------------------------------------------------------------
(* Claims about Item (checked under SpecItem).                             *)

Abs(x) == IF x < 0 THEN -x ELSE x

\* the items of a request in the current state
ItemsOfPr(pr) == {i \in DOMAIN items : items[i].purchase_request = pr}

\* usd is price / rate rounded to the nearest hundredth
IsRoundedQuotient(usd, price, rate) ==
    rate > 0 /\ 2 * Abs(100 * price - usd * rate) <= rate

\* C4: after any sequence of item creations, updates and deletions, the
\* item_sno values of a request's existing items are exactly 1..n, n the
\* number of its items, in creation (primary key) order.
C4_ItemSnoContiguous ==
    \A pr \in DOMAIN prs :
        /\ {items[i].item_sno : i \in ItemsOfPr(pr)} = 1..Cardinality(ItemsOfPr(pr))
        /\ \A i \in ItemsOfPr(pr) : \A j \in ItemsOfPr(pr) :
              i < j => items[i].item_sno < items[j].item_sno

\* C5: in every reachable state each stored item's local subtotal, USD unit
\* price and USD subtotal agree with its current unit price and quantity and
\* with the current exchange rate of its parent request (a parent whose rate
\* is zero admits no USD price and is left out).
C5_SubtotalsConsistentWithCurrentRate ==
    \A i \in DOMAIN items :
        LET it == items[i]
            rate == prs[it.purchase_request].dollar_exchange_rate
        IN /\ it.price_estimated_local_subtotal
                 = it.price_estimated_local * it.quantity_requested
           /\ rate > 0 =>
                 /\ IsRoundedQuotient(it.price_estimated_usd, it.price_estimated_local, rate)
                 /\ it.price_estimated_usd_subtotal
                       = it.price_estimated_usd * it.quantity_requested

\* C6: every stored item, whether stored by a first save or by an update,
\* has price_estimated_local_subtotal = price_estimated_local *
\* quantity_requested (a whole number of hundredths, so rounding to two
\* places leaves it as it is), whatever the instance held in that field.
C6_LocalSubtotalIsPriceTimesQuantity ==
    \A i \in DOMAIN items :
        items[i].price_estimated_local_subtotal
            = items[i].price_estimated_local * items[i].quantity_requested

\* C6 witness: an item updated to 3 x 10.00 holds the subtotal 30.00, and
\* not the 7.77 the admin form carried.
C6_Witness ==
    /\ outcome = "ok"
    /\ \E i \in DOMAIN items :
          /\ items[i].quantity_requested = 3
          /\ items[i].price_estimated_local = 1000
          /\ items[i].price_estimated_local_subtotal = 3000
          /\ items[i].price_estimated_usd = 333

\* C7: every save of an item stores price_estimated_usd = the local price
\* divided by the parent's rate at that moment, rounded to the nearest
\* hundredth, and price_estimated_usd_subtotal = that rounded unit price
\* times the quantity.
C7_UsdSubtotalFromRoundedUnitPrice ==
    [][\A i \in DOMAIN items' :
          (i \notin DOMAIN items \/ items'[i] /= items[i]) =>
              LET it == items'[i]
                  rate == prs'[it.purchase_request].dollar_exchange_rate
              IN /\ IsRoundedQuotient(it.price_estimated_usd, it.price_estimated_local, rate)
                 /\ it.price_estimated_usd_subtotal
                       = it.price_estimated_usd * it.quantity_requested
      ]_vars

\* C7 witness: 3 x 10.00 at rate 2.00 stored as 30.00, 5.00 and 15.00, next
\* to 3 x 1.00 at rate 3.00 stored as 0.33 and 0.99 (not 1.00).
C7_Witness ==
    \E i \in DOMAIN items : \E j \in DOMAIN items :
        /\ prs[items[i].purchase_request].dollar_exchange_rate = 200
        /\ items[i].quantity_requested = 3
        /\ items[i].price_estimated_local = 1000
        /\ items[i].price_estimated_local_subtotal = 3000
        /\ items[i].price_estimated_usd = 500
        /\ items[i].price_estimated_usd_subtotal = 1500
        /\ prs[items[j].purchase_request].dollar_exchange_rate = 300
        /\ items[j].quantity_requested = 3
        /\ items[j].price_estimated_local = 100
        /\ items[j].price_estimated_usd = 33
        /\ items[j].price_estimated_usd_subtotal = 99

----------------------------------------------------------------------------
(* Claims about FinanceCodes (checked under SpecFinance).                  *)

\* the finance-code rows of an item in the current state
FcsOfItem(item) == {f \in DOMAIN fcs : fcs[f].item = item}

\* the sum of allocation_percent over the rows of an item
AllocatedTo(item) ==
    SetSum([f \in FcsOfItem(item) |-> fcs[f].allocation_percent], FcsOfItem(item))

\* a four-digit number
FourDigits(gl) == gl >= 1000 /\ gl <= 9999

\* C8: with validation and write one atomic step, after any sequence of
\* accepted additions, edits and deletions through FinanceCodesForm the
\* allocation_percent of the rows of any one item sum to at most 100.
C8_AllocationSumAtMost100 ==
    \A item \in DOMAIN items : AllocatedTo(item) <= 100

RejectedProposal(pk, item, gl, p) ==
    \/ pk = NoId /\ AllocatedTo(item) + p > 100     \* over-allocation
    \/ p < 1 \/ p > 100                              \* percentage out of range
    \/ ~ FourDigits(gl)                              \* invalid GL account

\* C10: a proposed split (new or edited) that validation rejects for
\* over-allocation, an out-of-range percentage or an invalid GL account
\* ends in a validation error with the FinanceCodes rows as before (no
\* step is both the handling of such a proposal and anything else), and
\* whenever a request ends in a validation error the rows and their
\* allocation_percent are as before.
C10_RejectedLeavesRowsUnchanged ==
    [][/\ \/ outcome' = "ValidationError" /\ fcs' = fcs
          \/ /\ \A item \in DOMAIN items : \A gl \in GLAccounts : \A p \in Percents :
                   ~ (RejectedProposal(NoId, item, gl, p) /\ financecodes_new(item, gl, p))
             /\ \A id \in DOMAIN fcs : \A item \in DOMAIN items :
                   \A gl \in GLAccounts : \A p \in Percents :
                       ~ (RejectedProposal(id, item, gl, p)
                             /\ financecodes_edit(id, item, gl, p))
       /\ outcome' = "ValidationError" => (fcs' = fcs /\ nextFcId' = nextFcId)
      ]_vars

\* C10 witness: a proposal for an item that holds one split of 60 has just
\* been rejected, and the item still holds exactly that split.
C10_Witness ==
    /\ outcome = "ValidationError"
    /\ \E item \in DOMAIN items :
          /\ Cardinality(FcsOfItem(item)) = 1
          /\ AllocatedTo(item) = 60

----------------------------------------------------------------------------
(* RequestForQuotation, QuotationAnalysis and PurchaseOrder                *)

\* Values of a DateField attribute, tagged with their Python type.
None == [type |-> "NoneType"]
Date(day) == [type |-> "date", day |-> day]
Days == {1, 2}                     \* two successive days
Dates == {None} \cup {Date(d) : d \in Days}
Vendors == {NoId, 1}               \* a vendor id, NoId for null
Totals == {0, 777}                 \* total_local / total_usd a caller may supply

\* the RequestForQuotationItem rows of a request for quotation (rfq_items)
rfq_items(t, rfq) ==
    {r \in DOMAIN t["RequestForQuotationItem"] :
        t["RequestForQuotationItem"][r].request_for_quotation = rfq}

\* the greatest delivery_date among a set of rows, None when no row has one
MaxDeliveryDate(table, ids) ==
    LET days == {table[r].delivery_date.day :
                    r \in {x \in ids : table[x].delivery_date /= None}}
    IN IF days = {} THEN None ELSE Date(SetMax(days))

\* self.rfq_items.aggregate(Max('delivery_date')) (models.py 510): aggregate()
\* returns a dict with the one key delivery_date__max.
rfq_items_aggregate(t, rfq) ==
    [type |-> "dict",
     delivery_date__max |-> MaxDeliveryDate(t["RequestForQuotationItem"], rfq_items(t, rfq))]

\* The instance as RequestForQuotation.save hands it to Model.save
\* (models.py 509-510): the dict itself is assigned to the date attribute.
RequestForQuotation_save(inst, t) ==
    [inst EXCEPT !.complete_order_delivery_date = rfq_items_aggregate(t, inst.id)]

\* Model.save of a DateField column (models.py 504, 511): DateField.to_python
\* takes None, a date or a string, and raises TypeError for anything else.
DateField_to_python_raises(value) == value.type \notin {"NoneType", "date"}

\* The admin add form of RequestForQuotation (admin.py 18): the instance is
\* built from the form, then save() is called.
admin_add_RequestForQuotation(pr, date) ==
    /\ nextRowId["RequestForQuotation"] <= MaxRow
    /\ pr \in DOMAIN prs
    /\ LET inst == RequestForQuotation_save(
                       [model |-> "RequestForQuotation", id |-> NoId,
                        purchase_request |-> pr, item |-> NoId,
                        complete_order_delivery_date |-> date], tables)
           id == nextRowId["RequestForQuotation"]
       IN IF DateField_to_python_raises(inst.complete_order_delivery_date)
          THEN /\ instance' = inst
               /\ outcome' = "TypeError"
               /\ UNCHANGED <<tables, nextRowId>>
          ELSE /\ instance' = [inst EXCEPT !.id = id]
               /\ outcome' = "ok"
               /\ tables' = [tables EXCEPT !["RequestForQuotation"] =
                                With(@, id, [purchase_request |-> pr, item |-> NoId,
                                             complete_order_delivery_date |->
                                                 inst.complete_order_delivery_date])]
               /\ nextRowId' = [nextRowId EXCEPT !["RequestForQuotation"] = id + 1]
    /\ UNCHANGED <<prs, nextPrId, items, nextItemId, fcs, nextFcId, maxSnoSeen>>
    /\ UNCHANGED <<profiles, inflight, utcnow>>

\* A QuotationAnalysis is stored (models.py 480-485; the model has no save
\* of its own).
quotation_analysis_new(selected_vendor, delivery_date) ==
    /\ nextRowId["QuotationAnalysis"] <= MaxRow
    /\ LET id == nextRowId["QuotationAnalysis"]
       IN /\ tables' = [tables EXCEPT !["QuotationAnalysis"] =
                           With(@, id, [purchase_request |-> NoId, item |-> NoId,
                                        selected_vendor |-> selected_vendor,
                                        delivery_date |-> delivery_date])]
          /\ nextRowId' = [nextRowId EXCEPT !["QuotationAnalysis"] = id + 1]
    /\ outcome' = "ok"
    /\ UNCHANGED <<prs, nextPrId, items, nextItemId, fcs, nextFcId, maxSnoSeen>>
    /\ UNCHANGED <<profiles, instance, inflight, utcnow>>

\* PurchaseOrder.save (models.py 552-558).  Its first statement looks up
\* self.purchase_order_items.Aggregate: the related manager has aggregate
\* and no Aggregate, so the lookup raises AttributeError before anything is
\* assigned, and lines 554-558 never run.
PurchaseOrder_save_raises(inst) == TRUE

\* The admin add form of PurchaseOrder (admin.py 20): the instance is built
\* from the form, then save() is called.
admin_add_PurchaseOrder(pr, total_local, total_usd, vendor, date, qa) ==
    /\ nextRowId["PurchaseOrder"] <= MaxRow
    /\ pr \in DOMAIN prs
    /\ qa \in DOMAIN tables["QuotationAnalysis"] \cup {NoId}
    /\ LET inst == [model |-> "PurchaseOrder", id |-> NoId,
                    purchase_request |-> pr, item |-> NoId,
                    total_local |-> total_local, total_usd |-> total_usd,
                    vendor |-> vendor, expected_delivery_date |-> date,
                    quotation_analysis |-> qa]
       IN /\ PurchaseOrder_save_raises(inst)
          /\ instance' = inst
          /\ outcome' = "AttributeError"
    /\ UNCHANGED <<prs, nextPrId, items, nextItemId, fcs, nextFcId, maxSnoSeen>>
    /\ UNCHANGED <<tables, nextRowId, profiles, inflight, utcnow>>

(* The quotation and order routes, over two requests of office A that      *)
(* exist already.                                                          *)
NextOrder ==
    \/ \E pr \in DOMAIN prs, date \in Dates : admin_add_RequestForQuotation(pr, date)
    \/ \E vendor \in Vendors, date \in Dates : quotation_analysis_new(vendor, date)
    \/ \E pr \in DOMAIN prs, total \in Totals, vendor \in Vendors, date \in Dates,
          qa \in DOMAIN tables["QuotationAnalysis"] \cup {NoId} :
          admin_add_PurchaseOrder(pr, total, total, vendor, date, qa)

SpecOrder == InitItem /\ [][NextOrder]_vars

----------------------------------------------------------------------------
(* Claims about RequestForQuotation and PurchaseOrder (checked under       *)
(* SpecOrder).                                                             *)

\* the rows of a table that refer to a purchase order
RowsOfOrder(table, po) == {r \in DOMAIN table : table[r].purchase_order = po}

\* C11: after every save of a RequestForQuotation the save has completed and
\* the instance and its stored row hold in complete_order_delivery_date the
\* greatest delivery_date of its RequestForQuotationItem rows, a date (or
\* null when it has none) and no other kind of value, whatever date the
\* instance held before.
C11_DeliveryDateIsMaxOfItems ==
    [][\A pr \in DOMAIN prs : \A date \in Dates :
          admin_add_RequestForQuotation(pr, date) =>
              LET id == nextRowId["RequestForQuotation"]
                  expected == MaxDeliveryDate(tables'["RequestForQuotationItem"],
                                              rfq_items(tables', id))
              IN /\ outcome' = "ok"
                 /\ instance'.complete_order_delivery_date \in Dates
                 /\ instance'.complete_order_delivery_date = expected
                 /\ id \in DOMAIN tables'["RequestForQuotation"]
                 /\ tables'["RequestForQuotation"][id].complete_order_delivery_date = expected
      ]_vars

\* C12: saving a PurchaseOrder completes and stores total_local = the sum of
\* price_subtotal_local and total_usd = the sum of price_subtotal_usd over
\* the order's PurchaseOrderItem rows, whatever totals the caller supplied.
C12_TotalsAreSumsOfItemSubtotals ==
    [][\A pr \in DOMAIN prs : \A total \in Totals : \A vendor \in Vendors :
       \A date \in Dates : \A qa \in DOMAIN tables["QuotationAnalysis"] \cup {NoId} :
          admin_add_PurchaseOrder(pr, total, total, vendor, date, qa) =>
              LET id == nextRowId["PurchaseOrder"]
                  poi == tables'["PurchaseOrderItem"]
                  own == RowsOfOrder(poi, id)
              IN /\ outcome' = "ok"
                 /\ id \in DOMAIN tables'["PurchaseOrder"]
                 /\ tables'["PurchaseOrder"][id].total_local
                       = SetSum([r \in own |-> poi[r].price_subtotal_local], own)
                 /\ tables'["PurchaseOrder"][id].total_usd
                       = SetSum([r \in own |-> poi[r].price_subtotal_usd], own)
      ]_vars

\* C19: after save of a PurchaseOrder with a quotation analysis attached the
\* order's vendor and expected_delivery_date are the analysis's
\* selected_vendor and delivery_date; with none attached they are as the
\* caller set them.
C19_VendorAndDateFromQuotationAnalysis ==
    [][\A pr \in DOMAIN prs : \A total \in Totals : \A vendor \in Vendors :
       \A date \in Dates : \A qa \in DOMAIN tables["QuotationAnalysis"] \cup {NoId} :
          admin_add_PurchaseOrder(pr, total, total, vendor, date, qa) =>
              IF qa /= NoId
              THEN /\ instance'.vendor = tables["QuotationAnalysis"][qa].selected_vendor
                   /\ instance'.expected_delivery_date
                         = tables["QuotationAnalysis"][qa].delivery_date
              ELSE /\ instance'.vendor = vendor
                   /\ instance'.expected_delivery_date = date
      ]_vars

----------------------------------------------------------------------------
(* FinanceCodes through the admin interface                                *)

\* The admin add form of FinanceCodes (admin.py 15): a plain ModelForm, so
\* only the model's field validators run (models.py 458, 465-466); the
\* integer form field rejects what is not a number, and item is required.
admin_is_valid(item, gl_account, allocation_percent) ==
    /\ item /= NoId
    /\ gl_account_validators(gl_account)
    /\ allocation_percent_validators(allocation_percent)

admin_add_FinanceCodes(item, gl_account, allocation_percent) ==
    /\ nextFcId <= MaxFC
    /\ item \in DOMAIN items \cup {NoId}
    /\ IF admin_is_valid(item, gl_account, allocation_percent)
       THEN /\ fcs' = With(fcs, nextFcId,
                           [item |-> item, gl_account |-> gl_account,
                            allocation_percent |-> allocation_percent])
            /\ nextFcId' = nextFcId + 1
            /\ outcome' = "ok"
       ELSE /\ outcome' = "ValidationError"
            /\ UNCHANGED <<fcs, nextFcId>>
    /\ UNCHANGED <<prs, nextPrId, items, nextItemId, maxSnoSeen>>
    /\ UNCHANGED others

(* The finance-code form routes and the admin add form, over one request   *)
(* with two items.                                                         *)
NextFinanceAdmin ==
    \/ \E item \in DOMAIN items \cup {NoId}, gl \in GLAccounts, p \in Percents :
          financecodes_new(item, gl, p)
    \/ \E item \in DOMAIN items \cup {NoId}, gl \in GLAccounts, p \in Percents :
          admin_add_FinanceCodes(item, gl, p)
    \/ \E id \in DOMAIN fcs : financecodes_del(id)

SpecFinanceAdmin == InitFinance /\ [][NextFinanceAdmin]_vars

\* C13: every FinanceCodes row accepted for storage has a gl_account of
\* exactly four digits, and a proposal whose gl_account is not a number or
\* has fewer or more than four digits ends in a validation error with
\* nothing stored, through the form and through the admin interface alike.
C13_StoredGlAccountHasFourDigits ==
    [][/\ \A f \in DOMAIN fcs' : FourDigits(fcs'[f].gl_account)
       /\ \A gl \in GLAccounts : ~ FourDigits(gl) =>
             \A item \in DOMAIN items \cup {NoId} : \A p \in Percents :
                 (financecodes_new(item, gl, p) \/ admin_add_FinanceCodes(item, gl, p))
                     => (outcome' = "ValidationError" /\ fcs' = fcs)
      ]_vars

----------------------------------------------------------------------------
(* Ownership: deletion of a purchase request and of a user profile         *)

\* <<approver1, approver2, created_by>> of a new request, as user profile
\* ids, NoId for null: two approvers and no recorded creator; a creator who
\* is the first approver as well.
UserInputs == {<<1, 2, NoId>>, <<1, NoId, 1>>}

\* The admin add form of PurchaseRequest (admin.py 13) with the user
\* references of the request (models.py 107, 265-272) filled in.
admin_add_PurchaseRequest(office, approver1, approver2, created_by) ==
    /\ nextPrId <= MaxPR
    /\ {approver1, approver2, created_by} \subseteq profiles \cup {NoId}
    /\ LET inst == [id |-> NoId, office |-> office, sno |-> 1,
                    dollar_exchange_rate |-> 200, status |-> "Drafted",
                    approver1 |-> approver1, approver2 |-> approver2,
                    created_by |-> created_by]
           row == PurchaseRequest_save(inst, prs)
       IN /\ prs' = With(prs, nextPrId, row)
          /\ NoteSno(row)
    /\ nextPrId' = nextPrId + 1
    /\ outcome' = "ok"
    /\ UNCHANGED <<items, nextItemId, fcs, nextFcId>>
    /\ UNCHANGED others

\* A row of a child model without a save of its own is stored: the
\* attachment route (urls.py 32) for ItemAttachment, the admin add form
\* (admin.py 22) for GoodsReceivedNote, a log entry for PurchaseRequestLog.
child_new(model, pr, item) ==
    /\ nextRowId[model] <= MaxChild
    /\ pr \in DOMAIN prs \cup {NoId}
    /\ item \in DOMAIN items \cup {NoId}
    /\ tables' = [tables EXCEPT ![model] =
                     With(@, nextRowId[model], [purchase_request |-> pr, item |-> item])]
    /\ nextRowId' = [nextRowId EXCEPT ![model] = @ + 1]
    /\ outcome' = "ok"
    /\ UNCHANGED <<prs, nextPrId, items, nextItemId, fcs, nextFcId, maxSnoSeen>>
    /\ UNCHANGED <<profiles, instance, inflight, utcnow>>

\* A user profile is deleted.  The deletion collects, through created_by
\* (models.py 107: a ForeignKey without on_delete, which cascades), the
\* requests the profile created, and with them their items and child rows;
\* approver1 and approver2 (models.py 265-272, SET_NULL) of the requests
\* that stay are set to null.
profile_del(u) ==
    /\ u \in profiles
    /\ profiles' = profiles \ {u}
    /\ LET gonePrs == {i \in DOMAIN prs : prs[i].created_by = u}
           goneItems == {i \in DOMAIN items : items[i].purchase_request \in gonePrs}
       IN /\ prs' = [i \in DOMAIN prs \ gonePrs |->
                        [prs[i] EXCEPT !.approver1 = IF @ = u THEN NoId ELSE @,
                                       !.approver2 = IF @ = u THEN NoId ELSE @]]
          /\ items' = Without(items, goneItems)
          /\ fcs' = Without(fcs, {f \in DOMAIN fcs : fcs[f].item \in goneItems})
          /\ tables' = Cascade(tables, gonePrs, goneItems)
    /\ outcome' = "ok"
    /\ UNCHANGED <<nextPrId, nextItemId, nextFcId, maxSnoSeen>>
    /\ UNCHANGED <<nextRowId, instance, inflight, utcnow>>

(* Two user profiles exist and the tables are empty.                       *)
InitCascade ==
    /\ prs = <<>>
    /\ nextPrId = 1
    /\ items = <<>>
    /\ nextItemId = 1
    /\ fcs = <<>>
    /\ nextFcId = 1
    /\ maxSnoSeen = [o \in Offices |-> 0]
    /\ outcome = "none"
    /\ tables = [m \in OtherModels |-> <<>>]
    /\ nextRowId = [m \in OtherModels |-> 1]
    /\ profiles = {1, 2}
    /\ instance = NoInstance
    /\ inflight = [w \in Workers |-> Idle]
    /\ utcnow = 1

(* Requests with their user references, one row of each child kind, and    *)
(* the two deletions.  No RequestForQuotation and no PurchaseOrder row is  *)
(* ever stored (their save raises), so none is created here.               *)
NextCascade ==
    \/ \E in \in UserInputs : admin_add_PurchaseRequest("A", in[1], in[2], in[3])
    \/ \E pr \in DOMAIN prs : nextItemId <= MaxChild /\ item_new(pr, 1, 100, 777, "pump", "")
    \/ \E item \in DOMAIN items : nextFcId <= MaxChild /\ financecodes_new(item, 1234, 40)
    \/ \E item \in DOMAIN items : child_new("ItemAttachment", NoId, item)
    \/ \E pr \in DOMAIN prs : child_new("GoodsReceivedNote", pr, NoId)
    \/ \E pr \in DOMAIN prs : child_new("PurchaseRequestLog", pr, NoId)
    \/ \E id \in DOMAIN prs : pr_del(id)
    \/ \E u \in profiles : profile_del(u)

SpecCascade == InitCascade /\ [][NextCascade]_vars

\* C14: child entities never outlive their parent: when a purchase request
\* is deleted, no Item, FinanceCodes, ItemAttachment, RequestForQuotation,
\* PurchaseOrder, GoodsReceivedNote or PurchaseRequestLog row that belonged
\* to it remains; and when a user profile referenced as approver1 or
\* approver2 of a request is deleted, the request is kept and that
\* reference is null.
C14_ChildrenNeverOutliveParent ==
    [][/\ \A i \in DOMAIN items' : items'[i].purchase_request \in DOMAIN prs'
       /\ \A f \in DOMAIN fcs' : fcs'[f].item \in DOMAIN items'
       /\ \A m \in ChildModels : \A r \in DOMAIN tables'[m] :
             /\ tables'[m][r].purchase_request \in DOMAIN prs' \cup {NoId}
             /\ tables'[m][r].item \in DOMAIN items' \cup {NoId}
       /\ \A u \in profiles \ profiles' : \A i \in DOMAIN prs :
             (prs[i].approver1 = u \/ prs[i].approver2 = u) =>
                 /\ i \in DOMAIN prs'
                 /\ prs'[i].approver1 /= u
                 /\ prs'[i].approver2 /= u
      ]_vars

----------------------------------------------------------------------------
(* PurchaseRequest.save as it runs: the read of the office's maximum and   *)
(* the insert are two steps of a worker, with no lock between them.        *)

\* sno computed from the maximum as it is at the insert (a locked save)
sno_to_insert_locked(local, table) == pr_count_by_office(table, local.office) + 1

\* sno computed from the maximum the worker read (models.py 316-319)
sno_to_insert(local, table) == local.pr_count_by_office + 1

\* models.py 310-315: a worker starts the first save of a request for
\* office and reads the office's maximum sno.
PurchaseRequest_save_read(w, office) ==
    /\ inflight[w] = Idle
    /\ nextPrId + Cardinality({v \in Workers : inflight[v] /= Idle}) <= MaxPR
    /\ inflight' = [inflight EXCEPT ![w] =
                       [at |-> "PurchaseRequest.save", office |-> office,
                        pr_count_by_office |-> pr_count_by_office(prs, office)]]
    /\ UNCHANGED <<prs, nextPrId, items, nextItemId, fcs, nextFcId, maxSnoSeen, outcome>>
    /\ UNCHANGED <<tables, nextRowId, profiles, instance, utcnow>>

\* models.py 316-321: the worker computes sno from what it read and inserts.
PurchaseRequest_save_insert(w) ==
    /\ inflight[w] /= Idle
    /\ inflight[w].at = "PurchaseRequest.save"
    /\ LET row == [office |-> inflight[w].office,
                   sno |-> sno_to_insert(inflight[w], prs),
                   dollar_exchange_rate |-> 200, status |-> "Drafted"]
       IN /\ prs' = With(prs, nextPrId, row)
          /\ NoteSno(row)
    /\ nextPrId' = nextPrId + 1
    /\ inflight' = [inflight EXCEPT ![w] = Idle]
    /\ outcome' = "ok"
    /\ UNCHANGED <<items, nextItemId, fcs, nextFcId>>
    /\ UNCHANGED <<tables, nextRowId, profiles, instance, utcnow>>

NextRace ==
    \/ \E w \in Workers, office \in Offices : PurchaseRequest_save_read(w, office)
    \/ \E w \in Workers : PurchaseRequest_save_insert(w)
    \/ \E id \in DOMAIN prs : pr_del(id)

SpecRace == Init /\ [][NextRace]_vars

\* C15: with the read of the maximum and the insert as two steps, every
\* insert stores the sno computed from the maximum its worker read
\* (read + 1), whatever other workers inserted in between, and changes no
\* other request; so two creations for one office that both read the same
\* maximum are both stored with the same sno.
C15_InsertUsesTheMaximumRead ==
    [][\A w \in Workers :
          (inflight[w] /= Idle /\ inflight'[w] = Idle) =>
              /\ DOMAIN prs' = DOMAIN prs \cup {nextPrId}
              /\ prs'[nextPrId].office = inflight[w].office
              /\ prs'[nextPrId].sno = inflight[w].pr_count_by_office + 1
              /\ \A j \in DOMAIN prs : prs'[j] = prs[j]
      ]_vars

\* C15 witness: two requests of office A, created by nothing but two
\* overlapping saves, are stored with the same sno.
C15_Witness ==
    \E i \in DOMAIN prs : \E j \in DOMAIN prs :
        /\ i /= j
        /\ prs[i].office = "A" /\ prs[j].office = "A"
        /\ prs[i].sno = prs[j].sno

----------------------------------------------------------------------------
(* financecodes_new as it runs: form validation and the write of the row   *)
(* are two steps of a worker.                                              *)

\* a write that validates again against the rows as they are now
save_after_is_valid_locked(local, table) ==
    is_valid(NoId, local.item, local.gl_account, local.allocation_percent, table)

\* form.save() after is_valid() returned True: nothing is checked again
save_after_is_valid(local, table) == TRUE

\* financecodes_new up to the end of form.is_valid() (forms.py 219-251)
financecodes_new_is_valid(w, item, gl_account, allocation_percent) ==
    /\ inflight[w] = Idle
    /\ nextFcId + Cardinality({v \in Workers : inflight[v] /= Idle}) <= MaxFC
    /\ item \in DOMAIN items
    /\ IF is_valid(NoId, item, gl_account, allocation_percent, fcs)
       THEN /\ inflight' = [inflight EXCEPT ![w] =
                               [at |-> "FinanceCodesForm.save", item |-> item,
                                gl_account |-> gl_account,
                                allocation_percent |-> allocation_percent]]
            /\ UNCHANGED outcome
       ELSE /\ outcome' = "ValidationError"
            /\ UNCHANGED inflight
    /\ UNCHANGED <<prs, nextPrId, items, nextItemId, fcs, nextFcId, maxSnoSeen>>
    /\ UNCHANGED <<tables, nextRowId, profiles, instance, utcnow>>

\* financecodes_new from form.save() on: the validated row is written
financecodes_new_save(w) ==
    /\ inflight[w] /= Idle
    /\ inflight[w].at = "FinanceCodesForm.save"
    /\ IF save_after_is_valid(inflight[w], fcs)
       THEN /\ fcs' = With(fcs, nextFcId,
                           [item |-> inflight[w].item,
                            gl_account |-> inflight[w].gl_account,
                            allocation_percent |-> inflight[w].allocation_percent])
            /\ nextFcId' = nextFcId + 1
            /\ outcome' = "ok"
       ELSE /\ outcome' = "ValidationError"
            /\ UNCHANGED <<fcs, nextFcId>>
    /\ inflight' = [inflight EXCEPT ![w] = Idle]
    /\ UNCHANGED <<prs, nextPrId, items, nextItemId, maxSnoSeen>>
    /\ UNCHANGED <<tables, nextRowId, profiles, instance, utcnow>>

NextFinanceRace ==
    \/ \E w \in Workers, item \in DOMAIN items, p \in Percents :
          financecodes_new_is_valid(w, item, 1234, p)
    \/ \E w \in Workers : financecodes_new_save(w)
    \/ \E id \in DOMAIN fcs : financecodes_del(id)

SpecFinanceRace == InitFinance /\ [][NextFinanceRace]_vars

\* C16: the allocation-sum check and the write are separate steps: every
\* addition that passed validation is written as it was validated, with no
\* second look at the sum, so two additions for one item validated against
\* the same existing sum are both written, and the item's percentages can
\* then sum to more than 100.
C16_ValidatedAdditionIsWritten ==
    [][\A w \in Workers :
          (inflight[w] /= Idle /\ inflight'[w] = Idle) =>
              /\ outcome' = "ok"
              /\ DOMAIN fcs' = DOMAIN fcs \cup {nextFcId}
              /\ fcs'[nextFcId].item = inflight[w].item
              /\ fcs'[nextFcId].allocation_percent = inflight[w].allocation_percent
              /\ \A f \in DOMAIN fcs : fcs'[f] = fcs[f]
      ]_vars

\* C16 witness: an item whose rows, all added through the form, sum to
\* more than 100.
C16_Witness ==
    \E item \in DOMAIN items : AllocatedTo(item) > 100

----------------------------------------------------------------------------
(* Status and sno of a purchase request over its saves                     *)

(* Creation with any supplied sno and status, the edit form, and the admin *)
(* change form with any sno and status.                                    *)
NextStatus ==
    \/ \E sno \in Snos, status \in Statuses :
          nextPrId <= MaxSaved /\ pr_new("A", 200, sno, status)
    \/ \E id \in DOMAIN prs, rate \in Rates \ {0} : pr_edit(id, rate)
    \/ \E id \in DOMAIN prs, sno \in Snos, status \in Statuses :
          admin_change_PurchaseRequest(id, prs[id].office,
                                       prs[id].dollar_exchange_rate, sno, status)

SpecStatus == Init /\ [][NextStatus]_vars

\* C17: the first save of a request stores the status 'Drafted' whatever
\* status the caller supplied; every later save stores the status and the
\* sno exactly as the caller assigned them (the stored ones for the edit
\* form, which has neither field), and none is rejected.
C17_DraftedAtFirstSaveThenAsAssigned ==
    [][/\ PrCreated => prs'[nextPrId].status = "Drafted"
       /\ \A id \in DOMAIN prs :
             /\ \A sno \in Snos : \A status \in Statuses :
                   admin_change_PurchaseRequest(id, prs[id].office,
                                                prs[id].dollar_exchange_rate, sno, status)
                       => /\ outcome' = "ok"
                          /\ prs'[id].sno = sno
                          /\ prs'[id].status = status
             /\ \A rate \in Rates \ {0} :
                   pr_edit(id, rate)
                       => /\ outcome' = "ok"
                          /\ prs'[id].sno = prs[id].sno
                          /\ prs'[id].status = prs[id].status
      ]_vars

\* C17 witness: the first request, stored at creation with sno 1 and
\* 'Drafted', now holds sno 2 and 'Approved', while a second request,
\* created after that change, is 'Drafted'.
C17_Witness ==
    /\ DOMAIN prs = {1, 2}
    /\ prs[1].sno = 2 /\ prs[1].status = "Approved"
    /\ prs[2].sno = 3 /\ prs[2].status = "Drafted"

----------------------------------------------------------------------------
(* item_sno over the saves of an item (checked under SpecItem).            *)

\* a step in which an Item was saved for the first time
ItemCreated == nextItemId' = nextItemId + 1

----------------------------------------------------------------------------
(* description_po over the saves of an item                                *)

(* The item routes with the descriptions varying, quantity and price held  *)
(* at 1 x 1.00, for items of request 1 of InitItem.  The item form leaves  *)
(* description_po of a new item empty; the admin forms carry any value.    *)
NextDescription ==
    \/ \E dpr \in Descriptions : item_new(1, 1, 100, 777, dpr, "")
    \/ \E dpr \in Descriptions, dpo \in Descriptions : item_new(1, 1, 100, 777, dpr, dpo)
    \/ \E id \in DOMAIN items, dpr \in Descriptions :
          item_edit(id, items[id].purchase_request, 1, 100, dpr)
    \/ \E id \in DOMAIN items, dpr \in Descriptions, dpo \in Descriptions \cup {""} :
          admin_change_Item(id, items[id].purchase_request, 1, 100, 777,
                            items[id].item_sno, dpr, dpo)
    \/ \E id \in DOMAIN items : item_del(id)

SpecDescription == InitItem /\ [][NextDescription]_vars

\* C20: a save of an item copies description_pr into description_po only
\* when the instance's description_po is empty (description_pr, a required
\* field, never is); an instance with a non-empty description_po keeps it,
\* also when its description_pr has been changed since.
C20_DescriptionPoCopiedOnlyWhenEmpty ==
    [][/\ \A dpr \in Descriptions : \A dpo \in Descriptions \cup {""} :
             (item_new(1, 1, 100, 777, dpr, dpo) /\ outcome' = "ok") =>
                 /\ items'[nextItemId].description_pr = dpr
                 /\ items'[nextItemId].description_po = IF dpo = "" THEN dpr ELSE dpo
       /\ \A id \in DOMAIN items : \A dpr \in Descriptions :
             /\ (item_edit(id, items[id].purchase_request, 1, 100, dpr) /\ outcome' = "ok") =>
                   /\ items'[id].description_pr = dpr
                   /\ items'[id].description_po =
                         IF items[id].description_po = "" THEN dpr
                         ELSE items[id].description_po
             /\ \A dpo \in Descriptions \cup {""} :
                   (admin_change_Item(id, items[id].purchase_request, 1, 100, 777,
                                      items[id].item_sno, dpr, dpo) /\ outcome' = "ok") =>
                       /\ items'[id].description_pr = dpr
                       /\ items'[id].description_po = IF dpo = "" THEN dpr ELSE dpo
      ]_vars

\* C20 witness: an item created through the item form as "pump" (both
\* descriptions) whose description_pr has since been changed to "valve"
\* still holds description_po "pump".
C20_Witness ==
    /\ outcome = "ok"
    /\ \E i \in DOMAIN items :
          /\ items[i].description_pr = "valve"
          /\ items[i].description_po = "pump"

----------------------------------------------------------------------------
(* The exchange rate of the parent and the division in Item.save           *)

\* validators=[MinValueValidator(0.0)] of dollar_exchange_rate (models.py
\* 257): a rate passes when it is not below 0.00.
dollar_exchange_rate_validators(rate) == rate >= 0

\* C24: while every stored request has an exchange rate that passes the field
\* validators, no save of an item ends in an arithmetic error (with the item
\* left unsaved).
C24_ItemSaveNeverRaisesArithmeticError ==
    (\A p \in DOMAIN prs :
        dollar_exchange_rate_validators(prs[p].dollar_exchange_rate))
    => outcome /= "ArithmeticError"

----------------------------------------------------------------------------
(* PurchaseOrderItem                                                       *)

OrderIds == {1}                    \* purchase_order of an instance
OrderItemInputs == {<<2, 500, 250>>, <<3, 100, 50>>}
                                   \* <<quantity_ordered, price_local, price_usd>>

\* The instance after models.py 586-587: both subtotals assigned from the
\* unit prices and the quantity.
PurchaseOrderItem_save(inst) ==
    [inst EXCEPT !.price_subtotal_local = inst.price_local * inst.quantity_ordered,
                 !.price_subtotal_usd = inst.price_usd * inst.quantity_ordered]

\* models.py 588: super(PurchaseOrderItems, self).  The module defines
\* PurchaseOrderItem and no PurchaseOrderItems, so evaluating the name raises
\* NameError before Model.save is called.
PurchaseOrderItem_save_raises(inst) == TRUE

\* save() of a PurchaseOrderItem instance without id that a caller built
\* (the admin add form, admin.py 21, or PurchaseOrderItem(...)).  amount is
\* what the instance holds in its subtotals before the save.  The save
\* reaches no query, so the order the instance names plays no part.
purchase_order_item_new(purchase_order, item, quantity_ordered, price_local, price_usd, amount) ==
    /\ nextRowId["PurchaseOrderItem"] <= MaxRow
    /\ item \in DOMAIN items
    /\ LET inst == PurchaseOrderItem_save(
                       [model |-> "PurchaseOrderItem", id |-> NoId,
                        purchase_request |-> NoId, item |-> item,
                        purchase_order |-> purchase_order,
                        quantity_ordered |-> quantity_ordered,
                        price_local |-> price_local, price_usd |-> price_usd,
                        price_subtotal_local |-> amount,
                        price_subtotal_usd |-> amount])
       IN /\ PurchaseOrderItem_save_raises(inst)
          /\ instance' = inst
          /\ outcome' = "NameError"
    /\ UNCHANGED <<prs, nextPrId, items, nextItemId, fcs, nextFcId, maxSnoSeen>>
    /\ UNCHANGED <<tables, nextRowId, profiles, inflight, utcnow>>

(* The order-item saves, over two requests of office A that exist already  *)
(* and the items created for them.                                         *)
NextOrderItem ==
    \/ \E pr \in DOMAIN prs, in \in ItemInputs, amount \in Amounts :
          item_new(pr, in[1], in[2], amount, "pump", "")
    \/ \E id \in DOMAIN items : item_del(id)
    \/ \E po \in OrderIds, item \in DOMAIN items, in \in OrderItemInputs,
          amount \in Amounts :
          purchase_order_item_new(po, item, in[1], in[2], in[3], amount)

SpecOrderItem == InitItem /\ [][NextOrderItem]_vars

\* C23: saving a PurchaseOrderItem completes and stores the row with
\* price_subtotal_local = price_local * quantity_ordered and
\* price_subtotal_usd = price_usd * quantity_ordered.
C23_OrderItemStoredWithSubtotals ==
    [][\A po \in OrderIds : \A item \in DOMAIN items : \A in \in OrderItemInputs :
       \A amount \in Amounts :
          purchase_order_item_new(po, item, in[1], in[2], in[3], amount) =>
              LET id == nextRowId["PurchaseOrderItem"]
                  poi == tables'["PurchaseOrderItem"]
              IN /\ outcome' = "ok"
                 /\ id \in DOMAIN poi
                 /\ poi[id].price_subtotal_local = in[2] * in[1]
                 /\ poi[id].price_subtotal_usd = in[3] * in[1]
      ]_vars

----------------------------------------------------------------------------
(* PurchaseRequest.clean                                                   *)

\* Python values tagged with their type: the PurchaseRequestStatus row that
\* self.status holds (models.py 277), named by its status text, and a str.
StatusRow(status) == [type |-> "PurchaseRequestStatus", status |-> status]
Str(value) == [type |-> "str", value |-> value]

\* a == b where a is a model instance (Model.__eq__): False unless b is a
\* model instance too, and then the same row.
Model_eq(a, b) == a.type = b.type /\ a = b

\* PurchaseRequest.clean raises (models.py 304-307): pk set, self.status ==
\* 'draft', and a submission_date.
PurchaseRequest_clean_raises(inst) ==
    /\ inst.id /= NoId
    /\ Model_eq(StatusRow(inst.status), Str("draft"))
    /\ inst.submission_date /= None

\* The admin change form of PurchaseRequest (admin.py 13) with status and
\* submission_date assigned from the form: the form's validation calls
\* clean(); a rejected form stores nothing, an accepted one is saved.
admin_change_submission_date(id, status, submission_date) ==
    /\ id \in DOMAIN prs
    /\ LET inst == [id |-> id] @@ [prs[id] EXCEPT !.status = status,
                                                  !.submission_date = submission_date]
       IN IF PurchaseRequest_clean_raises(inst)
          THEN /\ outcome' = "ValidationError"
               /\ UNCHANGED <<prs, maxSnoSeen>>
          ELSE /\ outcome' = "ok"
               /\ prs' = With(prs, id, PurchaseRequest_save(inst, prs))
               /\ NoteSno(prs[id])
    /\ UNCHANGED <<nextPrId, items, nextItemId, fcs, nextFcId>>
    /\ UNCHANGED others

(* The status and submission-date changes, over three requests that exist  *)
(* already as pr_new stored them: 'Drafted', no submission date.           *)
InitClean ==
    /\ prs = [id \in {1, 2, 3} |->
                 [office |-> IF id = 3 THEN "B" ELSE "A",
                  sno |-> IF id = 2 THEN 2 ELSE 1,
                  dollar_exchange_rate |-> 200, status |-> "Drafted",
                  submission_date |-> None]]
    /\ nextPrId = 4
    /\ items = <<>>
    /\ nextItemId = 1
    /\ fcs = <<>>
    /\ nextFcId = 1
    /\ maxSnoSeen = [o \in Offices |-> IF o = "A" THEN 2 ELSE 1]
    /\ outcome = "ok"
    /\ InitOthers

NextClean ==
    \/ \E id \in DOMAIN prs, status \in Statuses, date \in Dates :
          admin_change_submission_date(id, status, date)
    \/ \E id \in DOMAIN prs : pr_del(id)

SpecClean == InitClean /\ [][NextClean]_vars

\* C22: validation of a saved request is rejected with a validation error
\* exactly when the request is in the drafted status and has a submission
\* date: a drafted request with a submission date is rejected and not
\* stored, a drafted request without one and a non-drafted request with one
\* pass and are stored.
C22_DraftedWithSubmissionDateRejected ==
    [][\A id \in DOMAIN prs : \A status \in Statuses : \A date \in Dates :
          admin_change_submission_date(id, status, date) =>
              IF status = "Drafted" /\ date /= None
              THEN outcome' = "ValidationError" /\ prs' = prs
              ELSE /\ outcome' = "ok"
                   /\ prs'[id].status = status
                   /\ prs'[id].submission_date = date
      ]_vars

----------------------------------------------------------------------------
(* CommonBaseAbstractModel.save: the created and updated timestamps        *)

MaxClock == 3                      \* instants the clock passes through in one run
NoTime == 0                        \* null in a DateTimeField column
Mnemonics == {"kg", "pc"}          \* Unit.mnemonic a form may carry

\* save that stamps created on every save
CommonBaseAbstractModel_save_created_always(inst, now_utc) ==
    [inst EXCEPT !.created = now_utc]

\* The instance as CommonBaseAbstractModel.save hands it to Model.save
\* (models.py 115-121): updated is stamped when the instance has an id,
\* created when it has none.
CommonBaseAbstractModel_save(inst, now_utc) ==
    IF inst.id /= NoId
    THEN [inst EXCEPT !.updated = now_utc]
    ELSE [inst EXCEPT !.created = now_utc]

\* the row Model.save writes for an instance held in tables
RowOf(inst) == [f \in DOMAIN inst \ {"model", "id"} |-> inst[f]]

\* The admin add form of Unit (admin.py 16; Unit has no save of its own,
\* models.py 364-376): an instance without id and without timestamps, which
\* are not editable (models.py 109-110), is saved.
admin_add_Unit(mnemonic) ==
    /\ nextRowId["Unit"] <= MaxRow
    /\ LET id == nextRowId["Unit"]
           inst == CommonBaseAbstractModel_save(
                       [model |-> "Unit", id |-> NoId,
                        purchase_request |-> NoId, item |-> NoId,
                        mnemonic |-> mnemonic,
                        created |-> NoTime, updated |-> NoTime], utcnow)
       IN /\ tables' = [tables EXCEPT !["Unit"] = With(@, id, RowOf(inst))]
          /\ nextRowId' = [nextRowId EXCEPT !["Unit"] = id + 1]
          /\ instance' = [inst EXCEPT !.id = id]
    /\ outcome' = "ok"
    /\ UNCHANGED <<prs, nextPrId, items, nextItemId, fcs, nextFcId, maxSnoSeen>>
    /\ UNCHANGED <<profiles, inflight, utcnow>>

\* The admin change form of Unit: the instance is loaded from its row, the
\* editable fields are assigned from the form, then save() is called.
admin_change_Unit(id, mnemonic) ==
    /\ id \in DOMAIN tables["Unit"]
    /\ LET loaded == [model |-> "Unit", id |-> id] @@ tables["Unit"][id]
           inst == CommonBaseAbstractModel_save(
                       [loaded EXCEPT !.mnemonic = mnemonic], utcnow)
       IN /\ tables' = [tables EXCEPT !["Unit"] = With(@, id, RowOf(inst))]
          /\ instance' = inst
    /\ outcome' = "ok"
    /\ UNCHANGED <<prs, nextPrId, items, nextItemId, fcs, nextFcId, maxSnoSeen>>
    /\ UNCHANGED <<nextRowId, profiles, inflight, utcnow>>

\* Time passes: the value utcnow() returns moves on.
clock_tick ==
    /\ utcnow < MaxClock
    /\ utcnow' = utcnow + 1
    /\ UNCHANGED <<prs, nextPrId, items, nextItemId, fcs, nextFcId, maxSnoSeen, outcome>>
    /\ UNCHANGED <<tables, nextRowId, profiles, instance, inflight>>

(* Units added and changed through the admin while time passes.            *)
NextStamp ==
    \/ \E mnemonic \in Mnemonics : admin_add_Unit(mnemonic)
    \/ \E id \in DOMAIN tables["Unit"], mnemonic \in Mnemonics :
          admin_change_Unit(id, mnemonic)
    \/ clock_tick

SpecStamp == Init /\ [][NextStamp]_vars

\* C25: the first save of a record sets created (to the instant of the save)
\* and leaves updated null; no later save changes created; updated changes
\* only in a save after the first, and every such save sets it (to the
\* instant of that save); and whenever updated is set it is not earlier than
\* created.
C25_CreatedOnceUpdatedOnLaterSaves ==
    [][LET old == tables["Unit"]
           new == tables'["Unit"]
       IN /\ \A id \in DOMAIN new \ DOMAIN old :
                /\ new[id].created = utcnow /\ new[id].created /= NoTime
                /\ new[id].updated = NoTime
          /\ \A id \in DOMAIN old \cap DOMAIN new :
                /\ new[id].created = old[id].created
                /\ new[id].updated /= old[id].updated
                      => \E mnemonic \in Mnemonics : admin_change_Unit(id, mnemonic)
                /\ \A mnemonic \in Mnemonics :
                      admin_change_Unit(id, mnemonic)
                          => new[id].updated = utcnow /\ new[id].updated /= NoTime
          /\ \A id \in DOMAIN new :
                /\ new[id].created /= NoTime
                /\ new[id].updated /= NoTime => new[id].updated >= new[id].created
      ]_vars

\* C25 witness: a unit first saved at instant 1 and saved again at instant 3
\* holds created 1 and updated 3, next to a unit first saved at instant 2
\* and not saved since.
C25_Witness ==
    /\ DOMAIN tables["Unit"] = {1, 2}
    /\ tables["Unit"][1].created = 1 /\ tables["Unit"][1].updated = 3
    /\ tables["Unit"][2].created = 2 /\ tables["Unit"][2].updated = NoTime

----------------------------------------------------------------------------
(* ModelDiffMixin                                                          *)

(* The mixin is declared in front of a model of this module, as in its     *)
(* docstring: class Unit(ModelDiffMixin, CommonBaseAbstractModel).  The    *)
(* variable instance holds the one instance in memory, with the dict       *)
(* __initial as the field initial and, as history bookkeeping, every field *)
(* as it was at the last load or save in the field at_snapshot.            *)

\* self._meta.fields of the model: the names of its concrete fields
meta_fields == {"id", "mnemonic", "created", "updated"}

\* editable of each field: created and updated are declared editable=False
\* (models.py 109-110), the others keep the default
editable == [f \in meta_fields |-> f \notin {"created", "updated"}]

\* model_to_dict(instance, fields=fields) (django.forms.models): the value of
\* every field that is editable and named in fields; a field that is not
\* editable is skipped.
model_to_dict(inst, fields) ==
    [f \in {g \in meta_fields : editable[g] /\ g \in fields} |-> inst[f]]

\* the property _dict (models.py 82-85)
ModelDiffMixin_dict(inst) == model_to_dict(inst, meta_fields)

\* the property diff (models.py 54-59): field -> <<old, current>> for every
\* key of __initial whose value differs now
ModelDiffMixin_diff(inst) ==
    LET d1 == inst.initial
        d2 == ModelDiffMixin_dict(inst)
    IN [k \in {f \in DOMAIN d1 : d1[f] /= d2[f]} |-> <<d1[k], d2[k]>>]

\* the properties has_changed and changed_fields (models.py 61-67)
has_changed(inst) == DOMAIN ModelDiffMixin_diff(inst) /= {}
changed_fields(inst) == DOMAIN ModelDiffMixin_diff(inst)

\* history bookkeeping: every field of the instance as it is now
AllFields(inst) == [f \in meta_fields |-> inst[f]]

\* self.__initial = self._dict (models.py 52, 80), with the bookkeeping
TakeSnapshot(inst) ==
    [f \in DOMAIN inst \cup {"initial", "at_snapshot"} |->
        IF f = "initial" THEN ModelDiffMixin_dict(inst)
        ELSE IF f = "at_snapshot" THEN AllFields(inst)
        ELSE inst[f]]

\* ModelDiffMixin.__init__ for a new instance (models.py 50-52): Unit(mnemonic=...)
ModelDiffMixin_init(mnemonic) ==
    /\ instance' = TakeSnapshot([model |-> "Unit", id |-> NoId,
                                 purchase_request |-> NoId, item |-> NoId,
                                 mnemonic |-> mnemonic,
                                 created |-> NoTime, updated |-> NoTime])
    /\ UNCHANGED <<prs, nextPrId, items, nextItemId, fcs, nextFcId, maxSnoSeen, outcome>>
    /\ UNCHANGED <<tables, nextRowId, profiles, inflight, utcnow>>

\* ModelDiffMixin.__init__ for an instance loaded from its row
ModelDiffMixin_load(id) ==
    /\ id \in DOMAIN tables["Unit"]
    /\ instance' = TakeSnapshot([model |-> "Unit", id |-> id] @@ tables["Unit"][id])
    /\ UNCHANGED <<prs, nextPrId, items, nextItemId, fcs, nextFcId, maxSnoSeen, outcome>>
    /\ UNCHANGED <<tables, nextRowId, profiles, inflight, utcnow>>

\* an assignment to a field of the instance, as p.rank = 42 in the docstring
\* (models.py 33)
set_field(field, value) ==
    /\ instance.model = "Unit"
    /\ field \in {"mnemonic", "created"}
    /\ instance' = [instance EXCEPT ![field] = value]
    /\ UNCHANGED <<prs, nextPrId, items, nextItemId, fcs, nextFcId, maxSnoSeen, outcome>>
    /\ UNCHANGED <<tables, nextRowId, profiles, inflight, utcnow>>

\* ModelDiffMixin.save (models.py 75-80): the save of the next class, here
\* CommonBaseAbstractModel.save, then the snapshot is taken again.
ModelDiffMixin_save ==
    /\ instance.model = "Unit"
    /\ instance.id = NoId => nextRowId["Unit"] <= MaxRow
    /\ LET fields == [f \in DOMAIN instance \ {"initial", "at_snapshot"} |-> instance[f]]
           inst == CommonBaseAbstractModel_save(fields, utcnow)
           id == IF inst.id = NoId THEN nextRowId["Unit"] ELSE inst.id
       IN /\ tables' = [tables EXCEPT !["Unit"] = With(@, id, RowOf(inst))]
          /\ nextRowId' = [nextRowId EXCEPT !["Unit"] =
                              IF inst.id = NoId THEN @ + 1 ELSE @]
          /\ instance' = TakeSnapshot([inst EXCEPT !.id = id])
    /\ outcome' = "ok"
    /\ UNCHANGED <<prs, nextPrId, items, nextItemId, fcs, nextFcId, maxSnoSeen>>
    /\ UNCHANGED <<profiles, inflight, utcnow>>

(* One instance in memory at a time: constructed or loaded, its fields     *)
(* assigned, saved.                                                        *)
NextDiff ==
    \/ \E mnemonic \in Mnemonics : ModelDiffMixin_init(mnemonic)
    \/ \E id \in DOMAIN tables["Unit"] : ModelDiffMixin_load(id)
    \/ \E mnemonic \in Mnemonics : set_field("mnemonic", mnemonic)
    \/ \E t \in 1..MaxClock : set_field("created", t)
    \/ ModelDiffMixin_save

SpecDiff == Init /\ [][NextDiff]_vars

\* C21: at every moment diff holds exactly the fields of the instance whose
\* current value differs from the value at the last load, construction or
\* save, each mapped to <<old value, current value>>; so has_changed is False
\* and changed_fields is empty right after a load, a construction or a save,
\* and a field set back to its snapshot value is no longer in diff.
C21_DiffIsExactlyTheChangedFields ==
    instance.model = "Unit" =>
        LET old == instance.at_snapshot
            differing == {f \in meta_fields : instance[f] /= old[f]}
            d == ModelDiffMixin_diff(instance)
        IN /\ changed_fields(instance) = differing
           /\ has_changed(instance) <=> differing /= {}
           /\ \A f \in DOMAIN d : d[f] = <<old[f], instance[f]>>

====
